---- MODULE Spec2Model ----
(***************************************************************************)
(* Model of nanobot's channel manager (nanobot/channels/manager.py) and of *)
(* its MCP client (nanobot/agent/tools/mcp.py).                            *)
(*                                                                         *)
(* Spec     the ChannelManager: start_all, stop_all, the outbound          *)
(*          dispatcher tasks, the producers of the outbound queue, with    *)
(*          channels whose start() runs forever, as start_all expects.     *)
(* StartSpec  Spec with channels whose start() returns or raises.          *)
(* HangSpec   FairSpec with one channel whose stop() may never return.     *)
(* FairSpec Spec with the fairness of the asyncio event loop: a task that  *)
(*          is ready to run is eventually run.                             *)
(* McpSpec  connect_mcp_servers over a dict of server configs, followed by *)
(*          the close of the exit stack it was handed.                     *)
(* ExecSpec one call of MCPToolWrapper.execute.                            *)
(***************************************************************************)
EXTENDS Naturals, Sequences, FiniteSets

\* ---------------------------------------------------------------- bounds
MaxStarts == 2      \* calls of start_all
MaxStops == 1       \* calls of stop_all
MaxMsgs == 2        \* messages published on the outbound queue
MaxServers == 2     \* entries of the mcp_servers dict
MaxTools == 2       \* tools in one server's catalog
MaxBlocks == 3      \* content blocks in one call_tool answer

\* ------------------------------------------------------------ vocabulary
\* The keys _init_channels can put in the table, in the order it inserts them.
ChannelOrder == <<"telegram", "whatsapp">>
ChannelNames == {"telegram", "whatsapp"}
\* msg.channel of an outbound message: a registered name or any other string.
MsgChannels == {"telegram", "whatsapp", "ghost"}
\* States of an asyncio task running _dispatch_outbound.
\*   absent     not created
\*   new        created by create_task, not yet run
\*   waiting    suspended in wait_for(consume_outbound(), 1.0)
\*   sending    suspended in await channel.send(msg)
\*   done       the coroutine returned (break)
\*   cancelled  the task ended with CancelledError
\*   failed     the task ended with another exception
Finished == {"done", "cancelled", "failed"}
Tasks == 1..MaxStarts

VARIABLES
    \* ChannelManager
    channels,       \* self.channels: the keys of the registration table
    dispatch_task,  \* self._dispatch_task: 0 is None, else a task id
    starts,         \* calls of start_all so far
    chanTasks,      \* <<start_all call, channel>> -> state of the task that call
                    \* created for channel.start(): running | returned | raised
    startPc,        \* start_all call -> absent | gather | returned | raised
    dpc,            \* dispatcher task -> its state
    dcancel,        \* dispatcher task -> cancel() was requested on it
    dmsg,           \* dispatcher task -> id of the msg it is sending, 0 if none
    outbound,       \* bus.outbound: the queue consume_outbound reads
    published,      \* msg.channel of every message published so far; its index is the message's id
    sends,          \* log of channel.send invocations, in order, with their outcome
    warned,         \* log of "Unknown channel" warnings, in order
    spc,            \* the running stop_all call: idle | awaitDisp | inStop
    starget,        \* the task that call awaits
    sidx,           \* index in the table of the channel whose stop() is in flight
    stops,          \* log of the channel.stop invocations of the latest stop_all call
    stopOutcome,    \* outcome of each completed stop_all call
    \* connect_mcp_servers
    mcp_servers,    \* the keys of the dict, in its order
    cfg,            \* server index -> what the loop found in its cfg, once it got
                    \* there: unread | transport (a command or a url) | neither
    policy,         \* the registry's collision policy
    mpc,            \* position in the current server's setup
    cur,            \* index of the current server
    tidx,           \* index of the next tool to register
    catalog,        \* server index -> its tools.tools, once listed
    outcome,        \* server index -> pending | skipped | failed | ok
    stack,          \* the AsyncExitStack: entered contexts, oldest first
    torn,           \* log of contexts exited, in order
    registry,       \* ToolRegistry: wrapper name -> wrapper
    regCalls,       \* log of registry.register calls, in order
    \* MCPToolWrapper.execute
    epc,            \* idle | called | format | returned | raised
    content,        \* result.content of the call_tool answer
    result,         \* the string execute returned
    request         \* the call_tool request execute sent, <<>> if none is looked at

mgrVars == <<channels, dispatch_task, starts, chanTasks, startPc, dpc, dcancel, dmsg, outbound,
             published, sends, warned, spc, starget, sidx, stops, stopOutcome>>
mcpVars == <<mcp_servers, cfg, policy, mpc, cur, tidx, catalog, outcome, stack, torn,
             registry, regCalls>>
exeVars == <<epc, content, result, request>>
vars == <<mgrVars, mcpVars, exeVars>>

\* ------------------------------------------------------- ChannelManager
\* self.channels.items(): the registered channels in insertion order.
Items == SelectSeq(ChannelOrder, LAMBDA c : c \in channels)

\* __init__ and _init_channels: each platform is in the table iff it is enabled
\* in the config and its module imports.
ManagerInit ==
    /\ channels \in SUBSET ChannelNames
    /\ dispatch_task = 0
    /\ starts = 0
    /\ chanTasks = [t \in {} |-> "running"]
    /\ startPc = [n \in Tasks |-> "absent"]
    /\ dpc = [d \in Tasks |-> "absent"]
    /\ dcancel = [d \in Tasks |-> FALSE]
    /\ dmsg = [d \in Tasks |-> 0]
    /\ outbound = <<>>
    /\ published = <<>>
    /\ sends = <<>>
    /\ warned = <<>>
    /\ spc = "idle"
    /\ starget = 0
    /\ sidx = 0
    /\ stops = <<>>
    /\ stopOutcome = <<>>

\* bus.publish_outbound(msg), by the agent.
Publish(c) ==
    /\ Len(published) < MaxMsgs
    /\ published' = Append(published, c)
    /\ outbound' = Append(outbound, [id |-> Len(published) + 1, channel |-> c])
    /\ UNCHANGED <<mcpVars, exeVars, dmsg, channels, dispatch_task, starts, chanTasks, startPc, dpc, dcancel, sends,
                   warned, spc, starget, sidx, stops, stopOutcome>>

\* StartAll without the early return on an empty table: the dispatcher task is
\* created whatever the table holds, and gather of no task returns at once.
StartAll_NoGuard ==
    /\ starts < MaxStarts
    /\ starts' = starts + 1
    /\ dispatch_task' = starts + 1
    /\ dpc' = [dpc EXCEPT ![starts + 1] = "new"]
    /\ chanTasks' = [t \in DOMAIN chanTasks \cup {<<starts + 1, c>> : c \in channels} |->
                        IF t \in DOMAIN chanTasks THEN chanTasks[t] ELSE "running"]
    /\ startPc' = [startPc EXCEPT ![starts + 1] =
                                 IF channels = {} THEN "returned" ELSE "gather"]
    /\ UNCHANGED <<mcpVars, exeVars, dmsg, channels, dcancel, outbound, published, sends, warned, spc,
                   starget, sidx, stops, stopOutcome>>

\* start_all, up to its return on an empty table or to its await of gather:
\* the dispatcher task and one task per channel are created.
StartAll ==
    /\ starts < MaxStarts
    /\ starts' = starts + 1
    /\ IF channels = {}
       THEN /\ startPc' = [startPc EXCEPT ![starts + 1] = "returned"]
            /\ UNCHANGED <<dispatch_task, dpc, chanTasks>>
       ELSE /\ dispatch_task' = starts + 1
            /\ dpc' = [dpc EXCEPT ![starts + 1] = "new"]
            /\ chanTasks' = [t \in DOMAIN chanTasks \cup {<<starts + 1, c>> : c \in channels} |->
                                IF t \in DOMAIN chanTasks THEN chanTasks[t] ELSE "running"]
            /\ startPc' = [startPc EXCEPT ![starts + 1] = "gather"]
    /\ UNCHANGED <<mcpVars, exeVars, dmsg, channels, dcancel, outbound, published, sends, warned, spc,
                   starget, sidx, stops, stopOutcome>>

\* The task of channel c's start() that call n created ends: start() returns
\* or raises.
ChannelStartEnds(n, c, r) ==
    /\ <<n, c>> \in DOMAIN chanTasks
    /\ chanTasks[<<n, c>>] = "running"
    /\ chanTasks' = [chanTasks EXCEPT ![<<n, c>>] = r]
    /\ UNCHANGED <<mcpVars, exeVars, dmsg, channels, dispatch_task, starts, startPc, dpc, dcancel,
                   outbound, published, sends, warned, spc, starget, sidx, stops,
                   stopOutcome>>

\* GatherResult without return_exceptions=True: the exception of a task is
\* raised from the await.
GatherResult_Raise(n) ==
    IF \E c \in channels : chanTasks[<<n, c>>] = "raised" THEN "raised" ELSE "returned"

\* What await asyncio.gather(*tasks, return_exceptions=True) does to call n
\* once the tasks are over: exceptions are results, the await returns.
GatherResult(n) == "returned"

\* gather is over when every task of the call is: start_all returns.
StartAllReturns(n) ==
    /\ startPc[n] = "gather"
    /\ \A c \in channels : chanTasks[<<n, c>>] # "running"
    /\ startPc' = [startPc EXCEPT ![n] = GatherResult(n)]
    /\ UNCHANGED <<mcpVars, exeVars, dmsg, channels, dispatch_task, starts, chanTasks, dpc, dcancel,
                   outbound, published, sends, warned, spc, starget, sidx, stops,
                   stopOutcome>>

\* First run of a dispatcher task. A task cancelled before it first runs ends
\* with CancelledError before the coroutine enters its try.
DispatchStart(d) ==
    /\ dpc[d] = "new"
    /\ dpc' = [dpc EXCEPT ![d] = IF dcancel[d] THEN "cancelled" ELSE "waiting"]
    /\ UNCHANGED <<mcpVars, exeVars, dmsg, channels, dispatch_task, starts, chanTasks, startPc, dcancel, outbound,
                   published, sends, warned, spc, starget, sidx, stops, stopOutcome>>

\* DispatchMessage with self.channels[msg.channel] for self.channels.get: the
\* KeyError of an unknown name escapes both excepts and ends the task.
DispatchMessage_Subscript(d, msg) ==
    /\ outbound' = Tail(outbound)
    /\ UNCHANGED warned
    /\ IF msg.channel \in channels
       THEN /\ sends' = Append(sends, [id |-> msg.id, channel |-> msg.channel,
                                       res |-> "pending"])
            /\ dpc' = [dpc EXCEPT ![d] = "sending"]
            /\ dmsg' = [dmsg EXCEPT ![d] = msg.id]
       ELSE /\ dpc' = [dpc EXCEPT ![d] = "failed"]
            /\ UNCHANGED <<sends, dmsg>>

\* DispatchMessage that puts a message it hands to send back on the queue.
DispatchMessage_Requeue(d, msg) ==
    IF msg.channel \in channels
    THEN /\ outbound' = Append(Tail(outbound), msg)
         /\ sends' = Append(sends, [id |-> msg.id, channel |-> msg.channel,
                                    res |-> "pending"])
         /\ dpc' = [dpc EXCEPT ![d] = "sending"]
         /\ dmsg' = [dmsg EXCEPT ![d] = msg.id]
         /\ UNCHANGED warned
    ELSE /\ outbound' = Tail(outbound)
         /\ warned' = Append(warned, [id |-> msg.id, channel |-> msg.channel])
         /\ UNCHANGED <<sends, dpc, dmsg>>

\* DispatchMessage that does not await the send: the task goes back to the
\* queue while the send is in flight.
DispatchMessage_NoAwait(d, msg) ==
    /\ outbound' = Tail(outbound)
    /\ IF msg.channel \in channels
       THEN /\ sends' = Append(sends, [id |-> msg.id, channel |-> msg.channel,
                                       res |-> "pending"])
            /\ UNCHANGED <<warned, dpc, dmsg>>
       ELSE /\ warned' = Append(warned, [id |-> msg.id, channel |-> msg.channel])
            /\ UNCHANGED <<sends, dpc, dmsg>>

\* The body of the loop for the message wait_for returned, up to the next
\* await: the channel's send is invoked, or the unknown name is warned about.
DispatchMessage(d, msg) ==
    /\ outbound' = Tail(outbound)
    /\ IF msg.channel \in channels
       THEN /\ sends' = Append(sends, [id |-> msg.id, channel |-> msg.channel,
                                       res |-> "pending"])
            /\ dpc' = [dpc EXCEPT ![d] = "sending"]
            /\ dmsg' = [dmsg EXCEPT ![d] = msg.id]
            /\ UNCHANGED warned
       ELSE /\ warned' = Append(warned, [id |-> msg.id, channel |-> msg.channel])
            /\ UNCHANGED <<sends, dpc, dmsg>>

\* wait_for returns the head of the queue.
DispatchConsume(d) ==
    /\ dpc[d] = "waiting"
    /\ ~dcancel[d]
    /\ outbound # <<>>
    /\ DispatchMessage(d, Head(outbound))
    /\ UNCHANGED <<mcpVars, exeVars, channels, dispatch_task, starts, chanTasks, startPc, dcancel, published,
                   spc, starget, sidx, stops, stopOutcome>>

\* wait_for times out on the empty queue: continue.
DispatchTimeout(d) ==
    /\ dpc[d] = "waiting"
    /\ ~dcancel[d]
    /\ outbound = <<>>
    /\ UNCHANGED vars

\* OnCancelled with continue for break.
OnCancelled_Continue == "waiting"

\* The state a dispatcher is left in when it catches CancelledError: break.
OnCancelled == "done"

\* CancelledError is raised in wait_for.
DispatchCancelled(d) ==
    /\ dpc[d] = "waiting"
    /\ dcancel[d]
    /\ dpc' = [dpc EXCEPT ![d] = OnCancelled]
    /\ UNCHANGED <<mcpVars, exeVars, dmsg, channels, dispatch_task, starts, chanTasks, startPc, dcancel, outbound,
                   published, sends, warned, spc, starget, sidx, stops, stopOutcome>>

\* The index in sends of the send task d is suspended in.
InFlight(d) ==
    CHOOSE i \in 1..Len(sends) : sends[i].id = dmsg[d] /\ sends[i].res = "pending"

\* OnSendError without the inner try: the exception ends the task.
OnSendError_Propagate == "failed"

\* The state a dispatcher is left in when channel.send raised an Exception:
\* the inner except logs it and the loop goes on.
OnSendError == "waiting"

\* channel.send returns or raises an Exception.
SendReturns(d, r) ==
    /\ dpc[d] = "sending"
    /\ ~dcancel[d]
    /\ sends' = [sends EXCEPT ![InFlight(d)].res = r]
    /\ dpc' = [dpc EXCEPT ![d] = IF r = "raised" THEN OnSendError ELSE "waiting"]
    /\ dmsg' = [dmsg EXCEPT ![d] = 0]
    /\ UNCHANGED <<mcpVars, exeVars, channels, dispatch_task, starts, chanTasks, startPc, dcancel, outbound,
                   published, warned, spc, starget, sidx, stops, stopOutcome>>

\* CancelledError is raised in channel.send: it is no Exception, so the inner
\* except lets it through and the outer one breaks.
SendCancelled(d) ==
    /\ dpc[d] = "sending"
    /\ dcancel[d]
    /\ sends' = [sends EXCEPT ![InFlight(d)].res = "cancelled"]
    /\ dpc' = [dpc EXCEPT ![d] = OnCancelled]
    /\ dmsg' = [dmsg EXCEPT ![d] = 0]
    /\ UNCHANGED <<mcpVars, exeVars, channels, dispatch_task, starts, chanTasks, startPc, dcancel, outbound,
                   published, warned, spc, starget, sidx, stops, stopOutcome>>

\* stop_all returns or raises: the call is over.
StopAllEnds(how, st) ==
    /\ spc' = "idle"
    /\ sidx' = 0
    /\ stops' = st
    /\ stopOutcome' = Append(stopOutcome, how)

\* The loop over self.channels.items() from the i-th item on, up to its next
\* await; st is the log of stop invocations so far.
StopChannels(i, st) ==
    IF i > Len(Items)
    THEN StopAllEnds("returned", st)
    ELSE /\ spc' = "inStop"
         /\ sidx' = i
         /\ stops' = Append(st, [channel |-> Items[i], res |-> "pending"])
         /\ UNCHANGED stopOutcome

\* await self._dispatch_task on a finished task t: a CancelledError is passed
\* over, any other exception of the task is raised from stop_all.
AwaitDispatchTask(t) ==
    IF dpc[t] = "failed"
    THEN StopAllEnds("raised", <<>>)
    ELSE StopChannels(1, <<>>)

\* CancelDispatcher without the await: cancel() and straight on to the channels.
CancelDispatcher_NoAwait(t) ==
    /\ dcancel' = [dcancel EXCEPT ![t] = TRUE]
    /\ StopChannels(1, <<>>)

\* What stop_all does with the dispatcher task t that is still running.
CancelDispatcher(t) ==
    /\ dcancel' = [dcancel EXCEPT ![t] = TRUE]
    /\ spc' = "awaitDisp"
    /\ stops' = <<>>
    /\ UNCHANGED <<sidx, stopOutcome>>

\* stop_all, up to its first suspension.
StopAll ==
    /\ spc = "idle"
    /\ Len(stopOutcome) < MaxStops
    /\ starget' = dispatch_task
    /\ IF dispatch_task = 0
       THEN StopChannels(1, <<>>) /\ UNCHANGED dcancel
       ELSE IF dpc[dispatch_task] \in Finished
            THEN AwaitDispatchTask(dispatch_task) /\ UNCHANGED dcancel
            ELSE CancelDispatcher(dispatch_task)
    /\ UNCHANGED <<mcpVars, exeVars, dmsg, channels, dispatch_task, starts, chanTasks, startPc, dpc, outbound,
                   published, sends, warned>>

\* stop_all resumes when the task it awaits has finished.
StopAllResume ==
    /\ spc = "awaitDisp"
    /\ dpc[starget] \in Finished
    /\ AwaitDispatchTask(starget)
    /\ UNCHANGED <<mcpVars, exeVars, dmsg, channels, dispatch_task, starts, chanTasks, startPc, dpc, dcancel,
                   outbound, published, sends, warned, starget>>

\* OnStopError without the try: the exception is raised from stop_all.
OnStopError_Propagate(st) == StopAllEnds("raised", st)

\* What stop_all does when channel.stop raised an Exception, st being the log
\* with that outcome recorded: log the error, go on with the next channel.
OnStopError(st) == StopChannels(sidx + 1, st)

\* channel.stop returns or raises an Exception.
ChannelStopReturns(r) ==
    /\ spc = "inStop"
    /\ LET st == [stops EXCEPT ![Len(stops)].res = r]
       IN  IF r = "raised" THEN OnStopError(st) ELSE StopChannels(sidx + 1, st)
    /\ UNCHANGED <<mcpVars, exeVars, dmsg, channels, dispatch_task, starts, chanTasks, startPc, dpc, dcancel,
                   outbound, published, sends, warned, starget>>

\* The table itself: each key with the channel instance _init_channels built
\* for it, named here by its class.
Table ==
    [c \in channels |-> IF c = "telegram" THEN "TelegramChannel" ELSE "WhatsAppChannel"]

\* The value of get_channel(name): self.channels.get(name).
get_channel(name) == IF name \in DOMAIN Table THEN Table[name] ELSE "None"

\* The value of get_status(), is_running giving channel.is_running of each
\* channel at the time of the call.
get_status(is_running) ==
    [name \in DOMAIN Table |-> [enabled |-> TRUE, running |-> is_running[name]]]

\* The value of enabled_channels: list(self.channels.keys()).
enabled_channels == Items

\* GetChannel with self.channels.pop(name, None) for self.channels.get(name).
GetChannel_Pop(name) ==
    /\ channels' = channels \ {name}
    /\ UNCHANGED <<mcpVars, exeVars, dmsg, dispatch_task, starts, chanTasks, startPc, dpc,
                   dcancel, outbound, published, sends, warned, spc, starget, sidx, stops,
                   stopOutcome>>

\* A call of get_channel(name), of get_status() and of enabled_channels: each
\* reads the table and assigns nothing.
GetChannel(name) == UNCHANGED vars
GetStatus == UNCHANGED vars
EnabledChannels == UNCHANGED vars

\* ------------------------------------------------- connect_mcp_servers
\* Keys of the mcp_servers dict, in the order the dict may hold them, and
\* names of remote tools: any strings.
ServerOrder == <<"a", "a_b", "b">>
ToolNames == {"c", "b_c"}
\* A valid config: cfg.command is set (stdio), else cfg.url is set (url).
Transports == {"stdio", "url"}
\* tools.tools of a list_tools answer: any sequence of tool definitions.
Catalogs == UNION {[1..n -> ToolNames] : n \in 0..MaxTools}
\* The key sets of the dicts of at most MaxServers entries.
KeySets == {k \in SUBSET (1..Len(ServerOrder)) : Cardinality(k) <= MaxServers}
Servers == 1..Len(mcp_servers)

\* The manager does nothing while the MCP client is looked at.
ManagerIdle ==
    /\ channels = {}
    /\ dispatch_task = 0
    /\ starts = 0
    /\ chanTasks = [t \in {} |-> "running"]
    /\ startPc = [n \in Tasks |-> "absent"]
    /\ dpc = [d \in Tasks |-> "absent"]
    /\ dcancel = [d \in Tasks |-> FALSE]
    /\ dmsg = [d \in Tasks |-> 0]
    /\ outbound = <<>>
    /\ published = <<>>
    /\ sends = <<>>
    /\ warned = <<>>
    /\ spc = "idle"
    /\ starget = 0
    /\ sidx = 0
    /\ stops = <<>>
    /\ stopOutcome = <<>>

\* connect_mcp_servers is not called while the manager is looked at.
McpIdle ==
    /\ mcp_servers = <<>>
    /\ cfg = <<>>
    /\ policy = "override"
    /\ mpc = "returned"
    /\ cur = 0
    /\ tidx = 0
    /\ catalog = <<>>
    /\ outcome = <<>>
    /\ stack = <<>>
    /\ torn = <<>>
    /\ registry = {}
    /\ regCalls = <<>>

\* The call of connect_mcp_servers(mcp_servers, registry, stack) with an empty
\* registry and an empty exit stack, at the head of its loop.
McpInit ==
    /\ \E k \in KeySets :
          mcp_servers = SelectSeq(ServerOrder,
                                  LAMBDA n : \E i \in k : ServerOrder[i] = n)
    /\ cfg = [i \in Servers |-> "unread"]
    /\ policy \in {"override", "reject"}
    /\ mpc = IF mcp_servers = <<>> THEN "returned" ELSE "transport"
    /\ cur = IF mcp_servers = <<>> THEN 0 ELSE 1
    /\ tidx = 0
    /\ catalog = [i \in Servers |-> <<>>]
    /\ outcome = [i \in Servers |-> "pending"]
    /\ stack = <<>>
    /\ torn = <<>>
    /\ registry = {}
    /\ regCalls = <<>>

\* MCPToolWrapper.__init__ without the server name in _name.
WrapperName_NoServer(server, tool) == "mcp_" \o tool

\* MCPToolWrapper.__init__: self._name.
WrapperName(server, tool) == "mcp_" \o server \o "_" \o tool

\* MCPToolWrapper(session, name, tool_def) for the session of server i.
MCPToolWrapper(i, tool) ==
    [name |-> WrapperName(mcp_servers[i], tool), session |-> i, original |-> tool]

\* The end of one iteration of the loop over mcp_servers.items(): the next
\* server, or the return.
NextServer ==
    IF cur = Len(mcp_servers)
    THEN mpc' = "returned" /\ UNCHANGED cur
    ELSE mpc' = "transport" /\ cur' = cur + 1

\* OnServerError without the except: the exception leaves connect_mcp_servers.
OnServerError_Propagate ==
    /\ outcome' = [outcome EXCEPT ![cur] = "failed"]
    /\ mpc' = "raised"
    /\ UNCHANGED cur

\* except Exception: the error is logged and the loop goes on.
OnServerError ==
    /\ outcome' = [outcome EXCEPT ![cur] = "failed"]
    /\ NextServer

\* McpSkip with a raise for the warning: the except takes it, as any failure.
McpSkip_AsError ==
    /\ mpc = "transport"
    /\ cfg' = [cfg EXCEPT ![cur] = "neither"]
    /\ OnServerError
    /\ UNCHANGED <<mgrVars, exeVars, mcp_servers, policy, tidx, catalog, stack, torn, registry,
                   regCalls>>

\* A config with neither command nor url: warning, continue.
McpSkip ==
    /\ mpc = "transport"
    /\ cfg' = [cfg EXCEPT ![cur] = "neither"]
    /\ outcome' = [outcome EXCEPT ![cur] = "skipped"]
    /\ NextServer
    /\ UNCHANGED <<mgrVars, exeVars, mcp_servers, policy, tidx, catalog, stack, torn, registry,
                   regCalls>>

\* stack.enter_async_context(stdio_client(params) or streamable_http_client(url)):
\* the context is pushed on the stack when entering it succeeds.
McpOpenTransport(kind, ok) ==
    /\ mpc = "transport"
    /\ kind \in Transports
    /\ cfg' = [cfg EXCEPT ![cur] = "transport"]
    /\ IF ok
       THEN /\ stack' = Append(stack, [server |-> cur, what |-> "transport"])
            /\ mpc' = "session"
            /\ UNCHANGED <<cur, outcome>>
       ELSE OnServerError /\ UNCHANGED stack
    /\ UNCHANGED <<mgrVars, exeVars, mcp_servers, policy, tidx, catalog, torn, registry,
                   regCalls>>

\* stack.enter_async_context(ClientSession(read, write)).
McpEnterSession(ok) ==
    /\ mpc = "session"
    /\ IF ok
       THEN /\ stack' = Append(stack, [server |-> cur, what |-> "session"])
            /\ mpc' = "initialize"
            /\ UNCHANGED <<cur, outcome>>
       ELSE OnServerError /\ UNCHANGED stack
    /\ UNCHANGED <<mgrVars, exeVars, mcp_servers, cfg, policy, tidx, catalog, torn, registry, regCalls>>

\* await session.initialize().
McpInitialize(ok) ==
    /\ mpc = "initialize"
    /\ IF ok
       THEN mpc' = "list_tools" /\ UNCHANGED <<cur, outcome>>
       ELSE OnServerError
    /\ UNCHANGED <<mgrVars, exeVars, mcp_servers, cfg, policy, tidx, catalog, stack, torn, registry,
                   regCalls>>

\* tools = await session.list_tools().
McpListTools(ok, cat) ==
    /\ mpc = "list_tools"
    /\ IF ok
       THEN /\ catalog' = [catalog EXCEPT ![cur] = cat]
            /\ tidx' = 1
            /\ mpc' = "register"
            /\ UNCHANGED <<cur, outcome>>
       ELSE OnServerError /\ UNCHANGED <<catalog, tidx>>
    /\ UNCHANGED <<mgrVars, exeVars, mcp_servers, cfg, policy, stack, torn, registry, regCalls>>

\* registry.register(w) accepts w: under "override" always, replacing a tool of
\* the same name; under "reject" unless the name is taken.
RegistryAccepts(w) ==
    policy = "override" \/ \A x \in registry : x.name # w.name
RegistryRegister(w) == {x \in registry : x.name # w.name} \cup {w}

\* RegistryOnFailure with a rollback: the failed server's wrappers are taken
\* out of the registry.
RegistryOnFailure_Rollback(i) == {w \in registry : w.session # i}

\* The registry after the except took a failure of server i: the handler
\* logs and unregisters nothing.
RegistryOnFailure(i) == registry

\* The next iteration of the loop over tools.tools: the wrapper is built and
\* registered; ok is FALSE when that raises for a reason of its own.
McpRegister(ok) ==
    /\ mpc = "register"
    /\ tidx <= Len(catalog[cur])
    /\ LET w == MCPToolWrapper(cur, catalog[cur][tidx])
           accepted == ok /\ RegistryAccepts(w)
       IN  /\ regCalls' = Append(regCalls, [server |-> cur, tool |-> catalog[cur][tidx],
                                            name |-> w.name, ok |-> accepted])
           /\ IF accepted
              THEN /\ registry' = RegistryRegister(w)
                   /\ tidx' = tidx + 1
                   /\ UNCHANGED <<mpc, cur, outcome>>
              ELSE OnServerError /\ registry' = RegistryOnFailure(cur) /\ UNCHANGED tidx
    /\ UNCHANGED <<mgrVars, exeVars, mcp_servers, cfg, policy, catalog, stack, torn>>

\* The loop over tools.tools is over: logger.info, next server.
McpServerDone ==
    /\ mpc = "register"
    /\ tidx > Len(catalog[cur])
    /\ outcome' = [outcome EXCEPT ![cur] = "ok"]
    /\ NextServer
    /\ UNCHANGED <<mgrVars, exeVars, mcp_servers, cfg, policy, tidx, catalog, stack, torn, registry,
                   regCalls>>

\* The caller closes the exit stack it handed over, after connect_mcp_servers
\* is over: the contexts are exited last entered first.
StackClose ==
    /\ mpc \in {"returned", "raised"}
    /\ stack # <<>>
    /\ torn' = torn \o [i \in 1..Len(stack) |-> stack[Len(stack) + 1 - i]]
    /\ stack' = <<>>
    /\ UNCHANGED <<mgrVars, exeVars, mcp_servers, cfg, policy, mpc, cur, tidx, catalog, outcome,
                   registry, regCalls>>

\* ------------------------------------------------ MCPToolWrapper.execute
\* Content blocks of a call_tool answer: TextContent with its text, or a block
\* of another type (ImageContent here) with its data.
Blocks ==
    {[type |-> "text", text |-> ""], [type |-> "text", text |-> "hi"],
     [type |-> "text", text |-> "(no output)"], [type |-> "image", data |-> "hi"]}
Contents == UNION {[1..n -> Blocks] : n \in 0..MaxBlocks}

\* str(block) of a block that is no TextContent: the listing of its fields.
Str(block) == "type='" \o block.type \o "' data='" \o block.data \o "'"

\* The loop over result.content: parts, in the order of the blocks.
RECURSIVE Parts(_)
Parts(blocks) ==
    IF blocks = <<>> THEN <<>>
    ELSE <<IF Head(blocks).type = "text" THEN Head(blocks).text ELSE Str(Head(blocks))>>
         \o Parts(Tail(blocks))

\* "\n".join(parts)
RECURSIVE Join(_)
Join(parts) ==
    IF parts = <<>> THEN ""
    ELSE IF Len(parts) = 1 THEN parts[1]
    ELSE parts[1] \o "\n" \o Join(Tail(parts))

\* Execute without the "or": the join is returned as it is.
Execute_NoSentinel(blocks) == Join(Parts(blocks))

\* The value execute returns for result.content = blocks: an empty string is
\* falsy, so "or" replaces it.
Execute(blocks) ==
    IF Join(Parts(blocks)) = "" THEN "(no output)" ELSE Join(Parts(blocks))

\* ForwardName with the wrapper's own name for the remote one.
ForwardName_Composite(w) == w.name

\* The tool name execute hands to call_tool: self._original_name.
ForwardName(w) == w.original

\* execute is called on a wrapper of the registry, once connect_mcp_servers
\* has returned, up to its await: the request goes out on self._session.
McpForward(w) ==
    /\ mpc = "returned"
    /\ epc = "idle"
    /\ w \in registry
    /\ epc' = "called"
    /\ request' = <<[session |-> w.session, tool |-> ForwardName(w)]>>
    /\ UNCHANGED <<mgrVars, mcpVars, content, result>>

\* execute is not called while the rest is looked at.
ExecIdle ==
    /\ epc = "idle"
    /\ content = <<>>
    /\ result = ""
    /\ request = <<>>

\* execute(**kwargs) is called on a wrapper.
ExecInit ==
    /\ epc = "called"
    /\ content = <<>>
    /\ result = ""
    /\ request = <<>>

\* await self._session.call_tool(...): the answer arrives, or the call raises
\* and the exception leaves execute.
ExecCallTool(ok, blocks) ==
    /\ epc = "called"
    /\ IF ok
       THEN epc' = "format" /\ content' = blocks
       ELSE epc' = "raised" /\ UNCHANGED content
    /\ UNCHANGED <<mgrVars, mcpVars, result, request>>

\* The rest of execute: the parts are collected and joined.
ExecFormat ==
    /\ epc = "format"
    /\ result' = Execute(content)
    /\ epc' = "returned"
    /\ UNCHANGED <<mgrVars, mcpVars, content, request>>

\* ------------------------------------------------------- specifications
Init == ManagerInit /\ McpIdle /\ ExecIdle

Next ==
    \/ \E c \in MsgChannels : Publish(c)
    \/ StartAll
    \/ \E d \in Tasks : DispatchStart(d)
    \/ \E d \in Tasks : DispatchConsume(d)
    \/ \E d \in Tasks : DispatchTimeout(d)
    \/ \E d \in Tasks : DispatchCancelled(d)
    \/ \E d \in Tasks, r \in {"ok", "raised"} : SendReturns(d, r)
    \/ \E d \in Tasks : SendCancelled(d)
    \/ StopAll
    \/ StopAllResume
    \/ \E r \in {"ok", "raised"} : ChannelStopReturns(r)
    \/ \E name \in MsgChannels : GetChannel(name)
    \/ GetStatus
    \/ EnabledChannels

Spec == Init /\ [][Next]_vars

\* The event loop runs every task that is ready: a task whose awaited future
\* was cancelled or has finished is resumed.
Fairness ==
    /\ \A d \in Tasks : WF_vars(DispatchStart(d))
    /\ \A d \in Tasks : WF_vars(DispatchCancelled(d))
    /\ \A d \in Tasks : WF_vars(SendCancelled(d))
    /\ WF_vars(StopAllResume)

FairSpec == Spec /\ Fairness

\* Spec with channels whose start() ends: it returns or raises at any time.
StartNext ==
    \/ \E c \in MsgChannels : Publish(c)
    \/ StartAll
    \/ \E n \in Tasks, c \in ChannelNames, r \in {"returned", "raised"} :
          ChannelStartEnds(n, c, r)
    \/ \E n \in Tasks : StartAllReturns(n)
    \/ \E d \in Tasks : DispatchStart(d)
    \/ \E d \in Tasks : DispatchConsume(d)
    \/ \E d \in Tasks : DispatchTimeout(d)
    \/ \E d \in Tasks : DispatchCancelled(d)
    \/ \E d \in Tasks, r \in {"ok", "raised"} : SendReturns(d, r)
    \/ \E d \in Tasks : SendCancelled(d)
    \/ StopAll
    \/ StopAllResume
    \/ \E r \in {"ok", "raised"} : ChannelStopReturns(r)
    \/ \E name \in MsgChannels : GetChannel(name)
    \/ GetStatus
    \/ EnabledChannels

StartSpec == Init /\ [][StartNext]_vars

\* A shutdown in which the stop() of one channel hangs: the stop() of every
\* other channel returns or raises in the end, that of Hanging need not.
Hanging == "telegram"
StopFairness ==
    WF_vars(\E r \in {"ok", "raised"} : ChannelStopReturns(r) /\ Items[sidx] # Hanging)

HangSpec == FairSpec /\ StopFairness

McpStart == ManagerIdle /\ McpInit /\ ExecIdle

McpNext ==
    \/ McpSkip
    \/ \E kind \in Transports, ok \in BOOLEAN : McpOpenTransport(kind, ok)
    \/ \E ok \in BOOLEAN : McpEnterSession(ok)
    \/ \E ok \in BOOLEAN : McpInitialize(ok)
    \/ \E ok \in BOOLEAN, cat \in Catalogs : McpListTools(ok, cat)
    \/ \E ok \in BOOLEAN : McpRegister(ok)
    \/ McpServerDone
    \/ \E w \in registry : McpForward(w)
    \/ StackClose

McpSpec == McpStart /\ [][McpNext]_vars

ExecStart == ManagerIdle /\ McpIdle /\ ExecInit

ExecNext ==
    \/ \E ok \in BOOLEAN, blocks \in Contents : ExecCallTool(ok, blocks)
    \/ ExecFormat

ExecSpec == ExecStart /\ [][ExecNext]_vars

\* --------------------------------------------------------------- claims
\* Helpers of the claims: positions of a log, ids in the queue.
SendsOf(id) == {i \in 1..Len(sends) : sends[i].id = id}
WarnsOf(id) == {i \in 1..Len(warned) : warned[i].id = id}
Queued(id) == \E i \in 1..Len(outbound) : outbound[i].id = id
\* This step takes a message off the queue or dispatches one.
Consumes == outbound' # outbound /\ Len(outbound') <= Len(outbound)
Dispatches == Len(sends') > Len(sends) \/ Len(warned') > Len(warned) \/ Consumes
\* The task that can have made this step's dispatch: it was waiting on the
\* queue, uncancelled, and is the only task whose state the step changes.
Consumer(d) ==
    /\ dpc[d] = "waiting" /\ ~dcancel[d]
    /\ \A e \in Tasks \ {d} : dpc'[e] = dpc[e] /\ dmsg'[e] = dmsg[e]

\* C1: a consumed message whose channel is not in the table gets a warning and
\* nothing else: no send is invoked for it, it is not put back on the queue (no
\* message is on the queue twice), and the step that drops it leaves the
\* dispatcher that consumed it waiting on the queue for the next message.
C1_State ==
    /\ \A id \in 1..Len(published) :
          published[id] \notin channels =>
            /\ SendsOf(id) = {}
            /\ Cardinality(WarnsOf(id)) = (IF Queued(id) THEN 0 ELSE 1)
    /\ \A i, j \in 1..Len(outbound) : outbound[i].id = outbound[j].id => i = j
C1_Step ==
    warned' # warned =>
        /\ \E d \in Tasks : Consumer(d) /\ dpc'[d] = "waiting"
        /\ sends' = sends
        /\ outbound' = Tail(outbound)
C1_UnknownChannelDropped == [](C1_State) /\ [][C1_Step]_vars
\* The only dispatcher there is has dropped a message and then handed a later
\* one to send.
C1_Witness ==
    /\ starts = 1
    /\ \E i \in 1..Len(warned), j \in 1..Len(sends) : sends[j].id > warned[i].id

\* C2: a send that raises does not end the dispatcher: the step in which the
\* send raises leaves its task waiting on the queue, exactly as a send that
\* returns does, and no dispatcher task ever ends with an exception.
C2_State == \A d \in Tasks : dpc[d] # "failed"
C2_Step ==
    \A d \in Tasks :
        (dpc[d] = "sending" /\ dpc'[d] # "sending" /\ ~dcancel[d]) =>
            /\ sends'[InFlight(d)].res \in {"ok", "raised"}
            /\ dpc'[d] = "waiting"
C2_SendErrorIsolated == [](C2_State) /\ [][C2_Step]_vars
\* After a send of the only dispatcher there is raised, it has handed a later
\* message to the send of the other registered channel.
C2_Witness ==
    /\ starts = 1
    /\ \E i, j \in 1..Len(sends) :
          /\ i < j
          /\ sends[i].res = "raised"
          /\ sends[j].channel # sends[i].channel

\* The stop invocations the latest call of stop_all made on channel c.
StopsOf(c) == {i \in 1..Len(stops) : stops[i].channel = c}

\* C3: whichever stops raise, a call of stop_all that is over has returned (not
\* raised) and has invoked stop() exactly once on every channel of the table;
\* a call under way has invoked it at most once, and only on channels of the
\* table.
C3_StopAllStopsEveryChannel ==
    /\ \A n \in 1..Len(stopOutcome) : stopOutcome[n] = "returned"
    /\ (spc = "idle" /\ stopOutcome # <<>>) =>
          /\ \A c \in channels : Cardinality(StopsOf(c)) = 1
          /\ \A i \in 1..Len(stops) : stops[i].res # "pending"
    /\ \A i \in 1..Len(stops) : stops[i].channel \in channels
    /\ \A c \in channels : Cardinality(StopsOf(c)) <= 1
\* A call of stop_all is over in which the first channel's stop raised and the
\* second channel's stop was invoked all the same.
C3_Witness ==
    /\ spc = "idle"
    /\ stopOutcome # <<>>
    /\ \E i, j \in 1..Len(stops) : i < j /\ stops[i].res = "raised"

\* C8: a dispatcher task that cancel() reaches while it waits on the queue
\* ends (the loop breaks), whether or not a message arrives in between; from
\* the cancel on it consumes nothing and dispatches nothing (whatever is
\* consumed is consumed by a task that is not cancelled); and no call of
\* stop_all raises.
C8_Step ==
    /\ \A d \in Tasks :
        (dpc[d] = "waiting" /\ dcancel[d]) =>
            /\ dmsg'[d] = 0
            /\ dpc'[d] \in {"waiting", "done"}
            /\ (dpc'[d] = "done" => ~Dispatches)
    /\ Dispatches => \E d \in Tasks : Consumer(d)
C8_CancelledWhileWaiting ==
    /\ \A d \in Tasks : (dpc[d] = "waiting" /\ dcancel[d]) ~> (dpc[d] = "done")
    /\ [][C8_Step]_vars
    /\ [](\A n \in 1..Len(stopOutcome) : stopOutcome[n] = "returned")
\* stop_all has returned after cancelling the only dispatcher there is, which
\* was in no send, and a message published meanwhile is still on the queue.
C8_Witness ==
    /\ starts = 1
    /\ stopOutcome = <<"returned">>
    /\ starget # 0
    /\ dpc[starget] = "done"
    /\ \A i \in 1..Len(sends) : sends[i].res # "cancelled"
    /\ outbound # <<>>

\* C9: here the dispatcher is the task stop_all cancels, the one _dispatch_task
\* holds when stop_all is called. Whenever stop_all has a stop() in flight,
\* that task has finished; a finished task stays finished, invokes no send
\* and consumes nothing.
C9_State ==
    (spc = "inStop" /\ starget # 0) => dpc[starget] \in Finished
C9_Step ==
    /\ \A d \in Tasks :
          dpc[d] \in Finished => dpc'[d] = dpc[d] /\ dmsg[d] = 0 /\ dmsg'[d] = 0
    /\ Dispatches => \E d \in Tasks : Consumer(d)
C9_DispatcherEndsBeforeStops == [](C9_State) /\ [][C9_Step]_vars
\* stop_all cancelled the only dispatcher there is in the middle of a send,
\* waited for it and is now stopping a channel.
C9_Witness ==
    /\ starts = 1
    /\ spc = "inStop"
    /\ starget # 0
    /\ \E i \in 1..Len(sends) : sends[i].res = "cancelled"

\* C10: send invocations follow the order of production, with at most one per
\* message (also when the send raised); a dispatcher task is suspended in a
\* send exactly while the send of the message it holds is in flight, every
\* send in flight is held by one task, and until its send is over a task
\* consumes nothing and dispatches nothing.
C10_State ==
    /\ \A i, j \in 1..Len(sends) : i < j => sends[i].id < sends[j].id
    /\ \A i \in 1..Len(sends) : published[sends[i].id] = sends[i].channel
    /\ \A d \in Tasks :
          /\ dpc[d] = "sending" <=> dmsg[d] # 0
          /\ dmsg[d] # 0 =>
                \E i \in 1..Len(sends) : sends[i].id = dmsg[d] /\ sends[i].res = "pending"
          /\ \A e \in Tasks : (e # d /\ dmsg[d] # 0) => dmsg[e] # dmsg[d]
    /\ \A i \in 1..Len(sends) :
          sends[i].res = "pending" => \E d \in Tasks : dmsg[d] = sends[i].id
C10_Step ==
    /\ \A d \in Tasks : dpc[d] = "sending" => dmsg'[d] \in {dmsg[d], 0}
    /\ Dispatches => \E d \in Tasks : Consumer(d)
C10_FifoNoRetry == [](C10_State) /\ [][C10_Step]_vars
\* A send of the only dispatcher there is raised and the next message was
\* handed to send after it: two messages, two invocations, in the order they
\* were published.
C10_Witness ==
    /\ starts = 1
    /\ Len(sends) = 2
    /\ sends[1].res = "raised"
    /\ outbound = <<>>

\* The register calls made for server i, those the registry accepted, and the
\* calls a complete setup of server i makes: one per tool of its catalog, in
\* catalog order, each with a wrapper named mcp_<server>_<tool>.
CallsOf(i) == SelectSeq(regCalls, LAMBDA r : r.server = i)
Accepted(i) == SelectSeq(regCalls, LAMBDA r : r.server = i /\ r.ok)
Expected(i) ==
    [k \in 1..Len(catalog[i]) |->
        [server |-> i, tool |-> catalog[i][k],
         name |-> "mcp_" \o mcp_servers[i] \o "_" \o catalog[i][k], ok |-> TRUE]]
RegisteredNames == {w.name : w \in registry}

\* C4: no failure leaves connect_mcp_servers (it never ends by raising), every
\* server of the dict is set up or skipped before it returns whatever happened
\* to the others, and a server whose steps all succeeded has made all its
\* register calls, in order, and has all its wrapper names in the registry.
C4_ServerFailureIsolated ==
    /\ mpc # "raised"
    /\ \A i \in Servers : (mpc = "returned" \/ i < cur) => outcome[i] # "pending"
    /\ \A i \in Servers :
          outcome[i] = "ok" =>
            /\ CallsOf(i) = Expected(i)
            /\ \A k \in 1..Len(catalog[i]) : Expected(i)[k].name \in RegisteredNames
\* Of two servers the first failed after it had entered its transport, and
\* the second was then set up and registered both tools of its catalog.
C4_Witness ==
    /\ mpc = "returned"
    /\ Len(mcp_servers) = 2
    /\ outcome[1] = "failed"
    /\ stack # <<>>
    /\ outcome[2] = "ok"
    /\ Len(catalog[2]) = 2

\* C5: any two register calls for distinct (server name, remote tool name)
\* pairs carry distinct wrapper names.
C5_WrapperNamesUnique ==
    \A i, j \in 1..Len(regCalls) :
        (\/ mcp_servers[regCalls[i].server] # mcp_servers[regCalls[j].server]
         \/ regCalls[i].tool # regCalls[j].tool)
            => regCalls[i].name # regCalls[j].name

\* The sum of the catalog lengths of the servers among 1..n whose setup
\* succeeded, and the number of register calls the registry accepted.
RECURSIVE OkTools(_)
OkTools(n) ==
    IF n = 0 THEN 0
    ELSE OkTools(n - 1) + (IF outcome[n] = "ok" THEN Len(catalog[n]) ELSE 0)
AcceptedCalls == SelectSeq(regCalls, LAMBDA r : r.ok)
AcceptedNames == {AcceptedCalls[k].name : k \in 1..Len(AcceptedCalls)}

C7_FailureUnwindsResources ==
    /\ \A i, j \in 1..Len(torn) : torn[i] = torn[j] => i = j
    /\ \A i, j \in 1..Len(torn) :
          (torn[i].server = torn[j].server /\ torn[i].what = "session"
           /\ torn[j].what = "transport") => i < j
    /\ \A i \in Servers :
          outcome[i] = "failed" => \A k \in 1..Len(stack) : stack[k].server # i

\* C11: Stopped is terminal. Once a call of stop_all is over, no step creates
\* a dispatcher task (start_all included) and no step consumes or dispatches
\* an outbound message.
C11_StoppedIsTerminal ==
    [][(spc = "idle" /\ stopOutcome # <<>>) =>
          /\ \A d \in Tasks : dpc[d] = "absent" => dpc'[d] = "absent"
          /\ ~Dispatches]_vars

\* C12: a stop() that never returns does not keep stop_all from the other
\* channels: once stop_all is at its loop over the table, stop() is in the end
\* invoked on every channel of the table.
C12_HangingStopDoesNotBlock ==
    (spc = "inStop") ~> (\A c \in channels : StopsOf(c) # {})

\* C13: with an empty table every call of start_all has returned, no
\* dispatcher task and no channel task exists, _dispatch_task is unset, every
\* message published is still on the queue (none is consumed, sent or warned
\* about), and every call of stop_all has returned, without suspending.
C13_EmptyTableStaysIdle ==
    channels = {} =>
        /\ \A n \in Tasks : startPc[n] = (IF n <= starts THEN "returned" ELSE "absent")
        /\ dispatch_task = 0
        /\ \A d \in Tasks : dpc[d] = "absent"
        /\ DOMAIN chanTasks = {}
        /\ Len(outbound) = Len(published)
        /\ \A i \in 1..Len(outbound) : outbound[i].id = i
        /\ sends = <<>> /\ warned = <<>>
        /\ spc = "idle" /\ stops = <<>>
        /\ \A n \in 1..Len(stopOutcome) : stopOutcome[n] = "returned"
\* On an empty table start_all was called twice and stop_all once, and the
\* messages published are on the queue.
C13_Witness ==
    /\ channels = {}
    /\ starts = MaxStarts
    /\ stopOutcome = <<"returned">>
    /\ Len(outbound) = MaxMsgs

\* The newline-join, in response order, of the text of each text block and of
\* the string form of each other block, over the first n blocks.
RECURSIVE JoinOfBlocks(_, _)
JoinOfBlocks(blocks, n) ==
    IF n = 0 THEN ""
    ELSE LET b == blocks[n]
             part == IF b.type = "text" THEN b.text
                     ELSE "type='" \o b.type \o "' data='" \o b.data \o "'"
         IN  IF n = 1 THEN part ELSE JoinOfBlocks(blocks, n - 1) \o "\n" \o part

\* C14: once call_tool has answered, execute returns and does not raise; the
\* value is the join of the blocks when that is not empty and "(no output)"
\* when it is, as for no block at all; it is never the empty string.
C14_State ==
    epc = "returned" =>
        /\ result = (IF JoinOfBlocks(content, Len(content)) = "" THEN "(no output)"
                     ELSE JoinOfBlocks(content, Len(content)))
        /\ (content = <<>> => result = "(no output)")
        /\ result # ""
C14_Step == epc = "format" => epc' = "returned"
C14_ExecuteJoinsOrSentinel == [](C14_State) /\ [][C14_Step]_vars
\* execute returned the two lines of an answer of an image block and a text
\* block.
C14_Witness ==
    /\ epc = "returned"
    /\ Len(content) = 2
    /\ content[1].type = "image"
    /\ content[2].type = "text"
    /\ result = "type='image' data='hi'\nhi"

\* C15: a server whose cfg has neither a command nor a url is skipped, not
\* failed: nothing of it is entered on the stack or exited, no list_tools
\* answer and no register call is its, and the step that skips it changes
\* neither stack nor registry and takes the loop to the next server, or to the
\* return after the last one.
C15_State ==
    \A i \in Servers :
        cfg[i] = "neither" =>
            /\ outcome[i] = "skipped"
            /\ \A k \in 1..Len(stack) : stack[k].server # i
            /\ \A k \in 1..Len(torn) : torn[k].server # i
            /\ CallsOf(i) = <<>>
            /\ catalog[i] = <<>>
            /\ i < cur \/ mpc = "returned"
C15_Step ==
    (cur # 0 /\ cfg[cur] = "unread" /\ cfg'[cur] = "neither") =>
        /\ stack' = stack /\ torn' = torn
        /\ registry' = registry /\ regCalls' = regCalls
        /\ IF cur = Len(mcp_servers)
           THEN mpc' = "returned"
           ELSE mpc' = "transport" /\ cur' = cur + 1
C15_NoTransportIsSkipped == [](C15_State) /\ [][C15_Step]_vars
\* The first of two servers was skipped and the second was then set up and
\* registered a tool.
C15_Witness ==
    /\ mpc = "returned"
    /\ Len(mcp_servers) = 2
    /\ cfg[1] = "neither"
    /\ outcome[2] = "ok"
    /\ \E w \in registry : w.session = 2

\* C16: no step of start_all, stop_all, a dispatcher or a query changes the
\* table, so it holds at all times the keys and instances __init__ gave it;
\* get_channel returns the instance of a key of the table and None for any
\* other name, get_status has one entry for each key of the table and no
\* other, and enabled_channels lists those keys, each once.
C16_State ==
    /\ \A name \in MsgChannels :
          get_channel(name) = (IF name \in channels THEN Table[name] ELSE "None")
    /\ \A is_running \in [channels -> BOOLEAN] : DOMAIN get_status(is_running) = channels
    /\ {enabled_channels[i] : i \in 1..Len(enabled_channels)} = channels
    /\ Len(enabled_channels) = Cardinality(channels)
C16_Step == channels' = channels /\ Table' = Table
C16_TableIsFixed == [](C16_State) /\ [][C16_Step]_vars
\* A table of two channels after two calls of start_all, a send and a call of
\* stop_all that is over.
C16_Witness ==
    /\ channels = ChannelNames
    /\ starts = MaxStarts
    /\ sends # <<>>
    /\ spc = "idle" /\ stopOutcome # <<>>

\* The dispatcher tasks that are alive: created and not finished.
Alive == {d \in Tasks : dpc[d] \in {"new", "waiting", "sending"}}

\* C17: at most one dispatcher task is alive, and a dispatcher task that is
\* alive is the one _dispatch_task holds, the one a call of stop_all cancels.
C17_OneDispatcher ==
    /\ Cardinality(Alive) <= 1
    /\ \A d \in Alive : dispatch_task = d

\* C18: no call of start_all raises; a call that has returned on a table with
\* channels has all its start tasks finished, returned or raised; the step in
\* which a start task ends changes no other start task, no dispatcher task,
\* no cancel request and no call of start_all or stop_all; the return of
\* start_all leaves every dispatcher task as it is; and a dispatcher task is
\* finished only if a call of stop_all requested its cancel.
C18_State ==
    /\ \A n \in Tasks : startPc[n] # "raised"
    /\ \A n \in Tasks :
          (startPc[n] = "returned" /\ channels # {}) =>
              \A c \in channels : chanTasks[<<n, c>>] \in {"returned", "raised"}
    /\ \A d \in Tasks :
          dpc[d] \in Finished => dcancel[d] /\ (spc # "idle" \/ stopOutcome # <<>>)
C18_Step ==
    /\ (starts' = starts /\ chanTasks' # chanTasks) =>
          /\ Cardinality({t \in DOMAIN chanTasks : chanTasks'[t] # chanTasks[t]}) = 1
          /\ \A t \in DOMAIN chanTasks : chanTasks[t] # "running" => chanTasks'[t] = chanTasks[t]
          /\ dpc' = dpc /\ dcancel' = dcancel /\ dmsg' = dmsg
          /\ startPc' = startPc /\ spc' = spc /\ stops' = stops
    /\ (starts' = starts /\ startPc' # startPc) =>
          dpc' = dpc /\ dcancel' = dcancel /\ dmsg' = dmsg /\ chanTasks' = chanTasks
C18_StartFailureIsolated == [](C18_State) /\ [][C18_Step]_vars
\* The start() of the first channel raised, that of the second returned
\* later, start_all has returned, and the dispatcher it created is in a send.
C18_Witness ==
    /\ starts = 1
    /\ channels = ChannelNames
    /\ chanTasks[<<1, "telegram">>] = "raised"
    /\ chanTasks[<<1, "whatsapp">>] = "returned"
    /\ startPc[1] = "returned"
    /\ dpc[1] = "sending"

\* The wrappers of server i the registry holds.
WrappersOf(i) == {w \in registry : w.session = i}

\* C19: the register calls the registry accepted for a server are a prefix,
\* in catalog order, of the calls for its tool list: all of them if its setup
\* succeeded; those before the failing call if a register call failed; none,
\* and no wrapper of it in the registry, if it was skipped or failed before a
\* register call. Nothing accepted is taken back: its name stays registered.
C19_NoRollbackPrefix ==
    \A i \in Servers :
        /\ Len(Accepted(i)) <= Len(Expected(i))
        /\ \A k \in 1..Len(Accepted(i)) :
              /\ Accepted(i)[k] = Expected(i)[k]
              /\ Accepted(i)[k].name \in RegisteredNames
        /\ outcome[i] = "ok" => Accepted(i) = Expected(i)
        /\ (outcome[i] = "failed" /\ CallsOf(i) # <<>>) =>
              /\ ~CallsOf(i)[Len(CallsOf(i))].ok
              /\ Len(Accepted(i)) = Len(CallsOf(i)) - 1
        /\ (outcome[i] \in {"failed", "skipped"} /\ CallsOf(i) = <<>>) => WrappersOf(i) = {}
\* connect_mcp_servers has returned; the second register call of a server
\* failed and the wrapper of its first tool is in the registry.
C19_Witness ==
    /\ mpc = "returned"
    /\ \E i \in Servers :
          /\ outcome[i] = "failed"
          /\ Len(catalog[i]) = 2
          /\ Len(CallsOf(i)) = 2
          /\ \E w \in WrappersOf(i) : w.original = catalog[i][1]

\* The contexts of server i that are entered on the stack.
Entered(i) == {stack[k].what : k \in {k \in 1..Len(stack) : stack[k].server = i}}

\* C20: a wrapper of the registry carries the session of the server whose
\* name its own name is built from, and the remote name of a tool that
\* session listed; a wrapper is registered only during the register loop of
\* its server, which is entered only from list_tools, and that only from
\* initialize, on an entered session; until the stack is closed that session
\* and its transport stay entered, whatever happens to later servers; and the
\* request of execute goes to the wrapper's session under the remote name.
C20_State ==
    /\ \A w \in registry :
          /\ w.session \in Servers
          /\ w.name = "mcp_" \o mcp_servers[w.session] \o "_" \o w.original
          /\ \E k \in 1..Len(catalog[w.session]) : catalog[w.session][k] = w.original
          /\ torn = <<>> => Entered(w.session) = {"transport", "session"}
    /\ request # <<>> =>
          /\ \E w \in registry :
                request[1].session = w.session /\ request[1].tool = w.original
          /\ \E k \in 1..Len(catalog[request[1].session]) :
                catalog[request[1].session][k] = request[1].tool
C20_Step ==
    /\ registry' # registry =>
          /\ mpc = "register"
          /\ \A w \in registry' \ registry : w.session = cur
          /\ Entered(cur) = {"transport", "session"}
    /\ (mpc' = "register" /\ mpc # "register") => mpc = "list_tools" /\ cur' = cur
    /\ (mpc' = "list_tools" /\ mpc # "list_tools") => mpc = "initialize" /\ cur' = cur
    /\ (mpc' = "initialize" /\ mpc # "initialize") =>
          mpc = "session" /\ cur' = cur /\ "session" \in Entered(cur)'
    /\ torn' = torn => \A k \in 1..Len(stack) : stack'[k] = stack[k]
C20_WrapperBoundToOpenSession == [](C20_State) /\ [][C20_Step]_vars
\* The first server registered a tool, the setup of the second failed with
\* its transport entered, the stack is not closed, and execute sent a request
\* for the first server's wrapper.
C20_Witness ==
    /\ Len(mcp_servers) = 2
    /\ outcome[1] = "ok" /\ outcome[2] = "failed"
    /\ Entered(2) # {}
    /\ torn = <<>>
    /\ request # <<>>
    /\ request[1].session = 1

====
